---------------------------- MODULE Spec2Model ----------------------------
(***************************************************************************)
(* Model of the TermsAnalyzer component                                    *)
(* (src/src/components/TermsAnalyzer.tsx): the rule-based classifier       *)
(* fallbackAnalyze, the remote adapter analyzeWithGPT, the orchestrating   *)
(* handler handleAnalyze with the component's React state, and the         *)
(* highlighter highlightText.                                              *)
(*                                                                         *)
(* Strings are sequences of one-character strings, so that matching,       *)
(* trimming, case folding and escaping are computed character by           *)
(* character.                                                              *)
(***************************************************************************)
EXTENDS Integers, Sequences, FiniteSets, TLC

VARIABLES
    termsText,        \* useState('')     : the text area's content
    apiKey,           \* useState('')     : the credential input's content
    isAnalyzing,      \* useState(false)
    showResults,      \* useState(false)
    highlightRisky,   \* useState(false)
    showApiKeyInput,  \* useState(false)
    analysis,         \* useState(null)   : the stored AnalysisResult
    pc,               \* position of the handleAnalyze invocation: idle / awaiting
    call,             \* closure of the pending invocation: the termsText and apiKey it captured
    resp,             \* what the remote endpoint answered to the latest call
    steps,            \* adapters run by the latest handleAnalyze invocation, in order
    toasts,           \* toasts raised by the latest handleAnalyze invocation, in order
    arg,              \* argument of the pure function under check (classifier, highlighter)
    ret               \* its return value

vars == <<termsText, apiKey, isAnalyzing, showResults, highlightRisky, showApiKeyInput,
          analysis, pc, call, resp, steps, toasts, arg, ret>>

uiVars == <<termsText, apiKey, isAnalyzing, showResults, highlightRisky, showApiKeyInput,
            analysis, pc, call, resp, steps, toasts>>

-----------------------------------------------------------------------------
(* Strings as character sequences *)

Chars(s) == [i \in 1..Len(s) |-> SubSeq(s, i, i)]

\* F applied to the value of e, e being evaluated once
Let(e, F(_)) == CHOOSE r \in {F(x) : x \in {e}} : TRUE

SetMin(S) == CHOOSE k \in S : \A k2 \in S : k <= k2
SetMax(S) == CHOOSE k \in S : \A k2 \in S : k >= k2

UpperLetters == Chars("ABCDEFGHIJKLMNOPQRSTUVWXYZ")
LowerLetters == Chars("abcdefghijklmnopqrstuvwxyz")

\* String.prototype.toLowerCase on one character
LowerOf == [i \in 1..Len(UpperLetters) |-> LowerLetters[i]]
UpperIndex == [c \in {UpperLetters[i] : i \in 1..Len(UpperLetters)} |->
                 CHOOSE i \in 1..Len(UpperLetters) : UpperLetters[i] = c]
Lower(c) == IF c \in DOMAIN UpperIndex THEN LowerOf[UpperIndex[c]] ELSE c

toLowerCase(s) == [i \in 1..Len(s) |-> Lower(s[i])]

\* the characters String.prototype.trim strips that the model's texts can hold
WhiteSpace == {" ", "\n", "\t", "\r"}

\* the characters the regular expression "." does not match
LineTerminators == {"\n", "\r"}

\* String.prototype.trim: s without its leading and trailing white space
\* a trim that strips nothing
trimNothing(s) == s

trim(s) ==
    Let({i \in 1..Len(s) : s[i] \notin WhiteSpace}, LAMBDA solid :
        IF solid = {} THEN <<>> ELSE SubSeq(s, SetMin(solid), SetMax(solid)))

\* the literal lit occurs in s at position i, compared exactly
ExactAt(s, i, lit) ==
    /\ i >= 1
    /\ i + Len(lit) - 1 <= Len(s)
    /\ \A k \in 1..Len(lit) : s[i + k - 1] = lit[k]

\* String.prototype.includes
includes(s, lit) == \E i \in 1..(Len(s) + 1) : ExactAt(s, i, lit)

\* the literal lit occurs in s at position i, compared as a regular
\* expression with the i flag compares characters
LitAt(s, i, lit) ==
    /\ i >= 1
    /\ i + Len(lit) - 1 <= Len(s)
    /\ \A k \in 1..Len(lit) : Lower(s[i + k - 1]) = Lower(lit[k])

RECURSIVE Flatten(_)
Flatten(ss) == IF ss = <<>> THEN <<>> ELSE Head(ss) \o Flatten(Tail(ss))

\* [...new Set(xs)]: the distinct elements in order of first occurrence
Dedup(xs) ==
    Let(xs, LAMBDA ys :
        Let({i \in 1..Len(ys) : \A j \in 1..(i - 1) : ys[j] # ys[i]}, LAMBDA firsts :
            [n \in 1..Cardinality(firsts) |->
                ys[CHOOSE i \in firsts : Cardinality({j \in firsts : j < i}) = n - 1]]))

\* JavaScript values that cross the remote boundary, by type tag
Num(n)    == [t |-> "number",    n |-> n, s |-> <<>>]
Str(s)    == [t |-> "string",    n |-> 0, s |-> s]
NaN       == [t |-> "NaN",       n |-> 0, s |-> <<>>]
Undefined == [t |-> "undefined", n |-> 0, s |-> <<>>]
Null      == [t |-> "null",      n |-> 0, s |-> <<>>]

Min(a, b) == IF a < b THEN a ELSE b
Max(a, b) == IF a > b THEN a ELSE b

-----------------------------------------------------------------------------
(* The Pattern Catalog and the rule-based classifier *)

\* One alternative of a catalog pattern: the literal a, optionally followed
\* by a gap (".?" or ".*") and the literal b.
Lit(a)        == [a |-> Chars(a), gap |-> "none", b |-> <<>>]
Opt(a, b)     == [a |-> Chars(a), gap |-> "opt",  b |-> Chars(b)]
Star(a, b)    == [a |-> Chars(a), gap |-> "star", b |-> Chars(b)]

riskPatterns == <<
    [pattern  |-> <<Lit("we may collect"), Lit("we collect"), Star("collect", "data"),
                    Lit("personal information")>>,
     category |-> "Data Privacy", severity |-> "high"],
    [pattern  |-> <<Opt("third", "party"), Star("share", "information"), Star("share", "data")>>,
     category |-> "Data Privacy", severity |-> "high"],
    [pattern  |-> <<Lit("cookies"), Lit("tracking"), Lit("analytics")>>,
     category |-> "Data Privacy", severity |-> "medium"],
    [pattern  |-> <<Lit("binding arbitration"), Star("waive", "rights"), Lit("you agree")>>,
     category |-> "Legal Rights", severity |-> "high"],
    [pattern  |-> <<Lit("no refund"), Opt("non", "refundable"), Lit("final sale"),
                    Star("all sales", "final")>>,
     category |-> "Refunds & Payments", severity |-> "high"],
    [pattern  |-> <<Star("terminate", "account"), Star("suspend", "service")>>,
     category |-> "Legal Rights", severity |-> "medium"],
    [pattern  |-> <<Star("modify", "terms"), Star("change", "agreement")>>,
     category |-> "User Control", severity |-> "low"],
    [pattern  |-> <<Star("liability", "limited"), Lit("not responsible"), Lit("as is")>>,
     category |-> "Legal Rights", severity |-> "high"] >>

\* where the greedy ".*" started at j stops: the first line terminator at or
\* after j, or the position past the end
LineEnd(s, j) ==
    Let({k \in j..Len(s) : s[k] \in LineTerminators}, LAMBDA stops :
        IF stops = {} THEN Len(s) + 1 ELSE SetMin(stops))

\* the greedy ".*" followed by b, started at j: backtracking gives the last
\* position in j..e where b occurs, or 0
LastAt(s, j, e, b) ==
    Let({k \in j..e : LitAt(s, k, b)}, LAMBDA at :
        IF at = {} THEN 0 ELSE SetMax(at))

\* the position after the match of alternative alt starting at i, or 0
AltEnd(s, i, alt) ==
    IF ~LitAt(s, i, alt.a) THEN 0
    ELSE Let(i + Len(alt.a), LAMBDA j :
            CASE alt.gap = "none" -> j
              [] alt.gap = "opt" ->
                   IF j <= Len(s) /\ s[j] \notin LineTerminators /\ LitAt(s, j + 1, alt.b)
                   THEN j + 1 + Len(alt.b)
                   ELSE IF LitAt(s, j, alt.b) THEN j + Len(alt.b)
                   ELSE 0
              [] alt.gap = "star" ->
                   Let(LastAt(s, j, LineEnd(s, j), alt.b), LAMBDA k :
                       IF k = 0 THEN 0 ELSE k + Len(alt.b)))

\* alternatives are tried in order; the first that matches at i decides
RECURSIVE PatternEnd(_, _, _, _)
PatternEnd(s, i, pattern, n) ==
    IF n > Len(pattern) THEN 0
    ELSE Let(AltEnd(s, i, pattern[n]), LAMBDA e :
            IF e # 0 THEN e ELSE PatternEnd(s, i, pattern, n + 1))

\* String.prototype.match with a g-flagged pattern: the matched substrings,
\* left to right, not overlapping, the scan resuming after each match;
\* <<>> stands for null (no match)
RECURSIVE match(_, _, _)
match(s, pattern, i) ==
    Let({k \in i..Len(s) : PatternEnd(s, k, pattern, 1) # 0}, LAMBDA starts :
        IF starts = {} THEN <<>>
        ELSE Let(SetMin(starts), LAMBDA k :
                Let(PatternEnd(s, k, pattern, 1), LAMBDA e :
                    <<SubSeq(s, k, e - 1)>> \o match(s, pattern, e))))

\* a weight that ignores the severity
riskValueFlat(severity) == 25

riskValue(severity) ==
    IF severity = "high" THEN 25 ELSE IF severity = "medium" THEN 15 ELSE 10

\* A bucket entry: the rule-based path pushes a canned sentence, the remote
\* path pushes `"${text}" - ${reason}`.
Sentence(str)        == [kind |-> "sentence", text |-> Str(Chars(str)), reason |-> Undefined]
Quoted(text, reason) == [kind |-> "quoted",   text |-> text,            reason |-> reason]

\* the matches of one rule after its deduplication
uniqueMatches(matches) == Dedup(matches)

\* the body of uniqueMatches.forEach for one match
PushIssue(acc, m, rule) ==
    Let(toLowerCase(m), LAMBDA lower :
        [foundIssues |-> Append(acc.foundIssues,
                                [text |-> m, category |-> rule.category,
                                 severity |-> rule.severity]),
         shadinessScore |-> acc.shadinessScore + riskValue(rule.severity),
         givingUp |->
            IF rule.category = "Data Privacy"
            THEN Append(acc.givingUp,
                        IF includes(lower, Chars("data"))
                        THEN Sentence("Your personal data may be collected or shared")
                        ELSE Sentence("Your information may be collected or shared"))
            ELSE acc.givingUp,
         payments |->
            IF rule.category # "Data Privacy" /\ rule.category = "Refunds & Payments"
            THEN Append(acc.payments,
                        IF includes(lower, Chars("refund"))
                        THEN Sentence("Limited or no refunds")
                        ELSE Sentence("Restrictive payment terms"))
            ELSE acc.payments,
         risks |->
            IF rule.category # "Data Privacy" /\ rule.category # "Refunds & Payments"
            THEN Append(acc.risks,
                        IF includes(lower, Chars("agree"))
                        THEN Sentence("You may waive certain legal rights")
                        ELSE Sentence("You may face account limitations"))
            ELSE acc.risks])

\* uniqueMatches.forEach
RECURSIVE ForEachMatch(_, _, _, _)
ForEachMatch(acc, ms, i, rule) ==
    IF i > Len(ms) THEN acc
    ELSE Let(PushIssue(acc, ms[i], rule), LAMBDA pushed :
            ForEachMatch(pushed, ms, i + 1, rule))

\* riskPatterns.forEach
RECURSIVE ForEachPattern(_, _, _)
ForEachPattern(acc, text, n) ==
    IF n > Len(riskPatterns) THEN acc
    ELSE Let(match(text, riskPatterns[n].pattern, 1), LAMBDA matches :
            IF matches # <<>>
            THEN Let(uniqueMatches(matches), LAMBDA unique :
                    Let(ForEachMatch(acc, unique, 1, riskPatterns[n]), LAMBDA pushed :
                        ForEachPattern(pushed, text, n + 1)))
            ELSE ForEachPattern(acc, text, n + 1))

\* a reasoning that always reports findings
ReasoningAlwaysFound(foundIssues) ==
    [kind |-> "found", phrases |-> Len(foundIssues),
     categories |-> Cardinality({foundIssues[i].category : i \in 1..Len(foundIssues)}),
     val |-> Undefined]

\* the reasoning of a rule-based result
Reasoning(foundIssues) ==
    IF Len(foundIssues) > 0
    THEN [kind |-> "found", phrases |-> Len(foundIssues),
          categories |-> Cardinality({foundIssues[i].category : i \in 1..Len(foundIssues)}),
          val |-> Undefined]
    ELSE [kind |-> "No major issues detected", phrases |-> 0, categories |-> 0,
          val |-> Undefined]

NoGptAnalysis == [present |-> FALSE]

\* a classifier that leaves repeated sentences in the buckets
fallbackAnalyzeKeepRepeats(text) ==
    Let(ForEachPattern([foundIssues |-> <<>>, shadinessScore |-> 0,
                        givingUp |-> <<>>, risks |-> <<>>, payments |-> <<>>],
                       text, 1),
        LAMBDA acc :
        [shadinessScore |-> Num(Min(100, acc.shadinessScore)),
         reasoning      |-> Reasoning(acc.foundIssues),
         categories     |-> [givingUp |-> acc.givingUp,
                             risks    |-> acc.risks,
                             payments |-> acc.payments],
         riskyPhrases   |-> [i \in 1..Len(acc.foundIssues) |-> Str(acc.foundIssues[i].text)],
         gptAnalysis    |-> NoGptAnalysis])

fallbackAnalyze(text) ==
    Let(ForEachPattern([foundIssues |-> <<>>, shadinessScore |-> 0,
                        givingUp |-> <<>>, risks |-> <<>>, payments |-> <<>>],
                       text, 1),
        LAMBDA acc :
        [shadinessScore |-> Num(Min(100, acc.shadinessScore)),
         reasoning      |-> Reasoning(acc.foundIssues),
         categories     |-> [givingUp |-> Dedup(acc.givingUp),
                             risks    |-> Dedup(acc.risks),
                             payments |-> Dedup(acc.payments)],
         riskyPhrases   |-> [i \in 1..Len(acc.foundIssues) |-> Str(acc.foundIssues[i].text)],
         gptAnalysis    |-> NoGptAnalysis])

-----------------------------------------------------------------------------
(* The remote adapter *)

Digits == Chars("0123456789")

IsDigits(s) == \A i \in 1..Len(s) : \E d \in 1..Len(Digits) : Digits[d] = s[i]

DigitVal(c) == (CHOOSE d \in 1..Len(Digits) : Digits[d] = c) - 1

RECURSIVE ParseDigits(_)
ParseDigits(s) ==
    IF s = <<>> THEN 0 ELSE 10 * ParseDigits(SubSeq(s, 1, Len(s) - 1)) + DigitVal(s[Len(s)])

\* ToNumber, as the arithmetic operators and Math.min/Math.max apply it
ToNumber(v) ==
    CASE v.t = "number" -> v
      [] v.t = "string" -> IF IsDigits(v.s) THEN Num(ParseDigits(v.s)) ELSE NaN
      [] v.t = "null"   -> Num(0)
      [] OTHER          -> NaN

\* v + k for a number k: a string operand makes it a concatenation
JsAdd(v, k, kText) ==
    IF v.t = "string" THEN Str(v.s \o kText)
    ELSE IF ToNumber(v).t = "NaN" THEN NaN ELSE Num(ToNumber(v).n + k)

\* v - k for a number k
JsSub(v, k) == IF ToNumber(v).t = "NaN" THEN NaN ELSE Num(ToNumber(v).n - k)

\* a Math.min that does not limit its argument
MathMinUnlimited(k, v) == ToNumber(v)

MathMin(k, v) == IF ToNumber(v).t = "NaN" THEN NaN ELSE Num(Min(k, ToNumber(v).n))
MathMax(k, v) == IF ToNumber(v).t = "NaN" THEN NaN ELSE Num(Max(k, ToNumber(v).n))

\* A value read where a list is expected: an array, a string, null or undefined
NoList       == [t |-> "undefined", items |-> <<>>]
NullList     == [t |-> "null",      items |-> <<>>]
StrList(s)   == [t |-> "string",    items |-> s]
Array(items) == [t |-> "array",     items |-> items]

\* result.phrases?.length || 0
issueCount(phrases) ==
    IF phrases.t \in {"undefined", "null"} THEN 0 ELSE Len(phrases.items)

Threw       == [threw |-> TRUE]
Returned(v) == [threw |-> FALSE, value |-> v]

\* analyzeWithGPT, given what the endpoint answers to its one request.
\*   rejected  : fetch rejects                         (line 80)
\*   notOk     : !response.ok                          (line 99)
\*   badBody   : response.json() rejects, or no choices array (lines 103-104)
\*   noContent : choices[0]?.message?.content is falsy (line 106)
\*   notJson   : JSON.parse(content) throws            (line 110)
\*   json      : JSON.parse(content) returns response.value
analyzeWithGPT(text, openaiApiKey, response) ==
    IF response.kind # "json" THEN Threw
    ELSE LET result == response.value
         IN  IF result.t = "null" THEN Threw      \* TypeError: result.phrases of null
             ELSE LET n == issueCount(result.phrases)
                      adjustedScore ==
                          IF n >= 5 THEN MathMin(100, JsAdd(result.score, 10, Chars("10")))
                          ELSE IF n <= 2 THEN MathMax(0, JsSub(result.score, 15))
                          ELSE result.score
                  IN  Returned([present   |-> TRUE,
                                score     |-> adjustedScore,
                                reasoning |-> result.reasoning,
                                phrases   |-> result.phrases,
                                summary   |-> result.summary])

-----------------------------------------------------------------------------
(* Bounded inputs *)

MaxUIWords  == 1      \* words in a text typed into the text area
MaxPhrases  == 5      \* phrases in a remote answer
MaxOffset   == 2      \* rotations of the phrase pool a remote answer may start at
ScoreExcess == 20     \* how far outside 0..100 a remote score may lie

\* all concatenations of at most n words
TextsOver(words, n) ==
    {Flatten([i \in 1..Len(ws) |-> Chars(words[ws[i]])]) :
        ws \in UNION {[1..k -> 1..Len(words)] : k \in 0..n}}

UIWords == <<" ", "cookies", "as is no refund we collect you agree thirdparty">>
UITexts == TextsOver(UIWords, MaxUIWords)

\* fallbackAnalyze tabulated over the texts the text area can hold
classified == [t \in UITexts |-> fallbackAnalyze(t)]

Keys == {<<>>, Chars(" "), Chars("sk-1")}

Phrase(text, reason, category) ==
    [t |-> "object", text |-> text, reason |-> reason, category |-> category]
NullPhrase == [t |-> "null", text |-> Undefined, reason |-> Undefined, category |-> Undefined]

PhrasePool == <<
    Phrase(Str(Chars("no refund")), Str(Chars("a")), Str(Chars("Refunds & Payments"))),
    Phrase(Str(Chars("cookies")),   Str(Chars("b")), Str(Chars("Data Privacy"))),
    Phrase(Str(Chars("you agree")), Str(Chars("c")), Str(Chars("Legal Rights"))),
    Phrase(Str(Chars("as is")),     Str(Chars("d")), Str(Chars("User Control"))) >>

PhraseArray(n, k) ==
    Array([i \in 1..n |-> PhrasePool[((i + k - 2) % Len(PhrasePool)) + 1]])

WellFormedArrays == {PhraseArray(n, k) : n \in 0..MaxPhrases, k \in 1..MaxOffset}

\* arrays whose entries deviate from {text, reason, category}
DeviantArrays ==
    { Array(<<NullPhrase>>),
      Array(<<Phrase(Undefined, Undefined, Undefined)>>),
      Array(<<Phrase(Str(Chars("cookies")), Str(Chars("b")), Str(Chars("Other")))>>) }

NotArrays == {NoList, NullList, StrList(Chars("phrases"))}

RemoteScores ==
    {Num(n) : n \in {0 - ScoreExcess, 0, 14, 50, 91, 100, 100 + ScoreExcess}}
        \cup {Undefined, Str(Chars("80"))}

GoodReasoning == Str(Chars("r"))
GoodSummary   == Array(<<Str(Chars("s"))>>)

Obj(score, reasoning, phrases, summary) ==
    [t |-> "object", score |-> score, reasoning |-> reasoning, phrases |-> phrases,
     summary |-> summary]
JsonNull  == [t |-> "null",  score |-> Undefined, reasoning |-> Undefined,
              phrases |-> NoList, summary |-> NoList]
\* a number, a string, a boolean or an array: every field reads as undefined
JsonOther == [t |-> "other", score |-> Undefined, reasoning |-> Undefined,
              phrases |-> NoList, summary |-> NoList]

JsonValues ==
    {JsonNull, JsonOther}
        \cup {Obj(sc, GoodReasoning, ph, GoodSummary) : sc \in RemoteScores, ph \in WellFormedArrays}
        \cup {Obj(Num(50), GoodReasoning, ph, GoodSummary) : ph \in NotArrays \cup DeviantArrays}
        \cup {Obj(Num(50), Undefined, PhraseArray(3, 1), GoodSummary),
              Obj(Num(50), GoodReasoning, PhraseArray(3, 1), NoList),
              Obj(Num(50), Num(7), PhraseArray(3, 1), StrList(Chars("s")))}

Responses ==
    {[kind |-> k, value |-> Null] : k \in {"rejected", "notOk", "badBody", "noContent", "notJson"}}
        \cup {[kind |-> "json", value |-> v] : v \in JsonValues}

NoArg == [fn |-> "none"]
NoRet == [done |-> FALSE]

-----------------------------------------------------------------------------
(* The orchestrator: handleAnalyze *)

Toast(title, variant) == [title |-> title, variant |-> variant]

NoTextToast        == Toast("No text to analyze", "destructive")
GptCompleteToast   == Toast("Analysis complete!", "default")
UsingBasicToast    == Toast("Using basic analysis", "destructive")
BasicCompleteToast == Toast("Basic analysis complete", "default")
AnalysisFailedToast == Toast("Analysis failed", "destructive")

\* the switch on phrase.category: the bucket an entry is pushed to, or "none"
bucketOf(category) ==
    CASE category = Str(Chars("Data Privacy"))       -> "givingUp"
      [] category = Str(Chars("Legal Rights"))       -> "risks"
      [] category = Str(Chars("User Control"))       -> "risks"
      [] category = Str(Chars("Refunds & Payments")) -> "payments"
      [] OTHER                                       -> "none"

\* the entries gptResult.phrases.forEach pushes to one bucket, in order
RECURSIVE bucketItems(_, _)
bucketItems(items, bucket) ==
    IF items = <<>> THEN <<>>
    ELSE LET phrase == Head(items)
             rest   == bucketItems(Tail(items), bucket)
         IN  IF bucketOf(phrase.category) = bucket
             THEN <<Quoted(phrase.text, phrase.reason)>> \o rest
             ELSE rest

\* a conversion that lists each phrase text once
convertGptResultDedup(gptResult) ==
    IF gptResult.phrases.t # "array" THEN Threw
    ELSE LET items == gptResult.phrases.items
         IN  IF \E i \in 1..Len(items) : items[i].t = "null" THEN Threw
             ELSE Returned(
                    [shadinessScore |-> gptResult.score,
                     reasoning      |-> [kind |-> "remote", phrases |-> 0, categories |-> 0,
                                         val |-> gptResult.reasoning],
                     categories     |-> [givingUp |-> bucketItems(items, "givingUp"),
                                         risks    |-> bucketItems(items, "risks"),
                                         payments |-> bucketItems(items, "payments")],
                     riskyPhrases   |-> Dedup([i \in 1..Len(items) |-> items[i].text]),
                     gptAnalysis    |-> gptResult])

\* "Convert GPT result to our format" (lines 211-242)
convertGptResult(gptResult) ==
    IF gptResult.phrases.t # "array" THEN Threw      \* TypeError at phrases.forEach
    ELSE LET items == gptResult.phrases.items
         IN  IF \E i \in 1..Len(items) : items[i].t = "null" THEN Threw  \* phrase.text of null
             ELSE Returned(
                    [shadinessScore |-> gptResult.score,
                     reasoning      |-> [kind |-> "remote", phrases |-> 0, categories |-> 0,
                                         val |-> gptResult.reasoning],
                     categories     |-> [givingUp |-> bucketItems(items, "givingUp"),
                                         risks    |-> bucketItems(items, "risks"),
                                         payments |-> bucketItems(items, "payments")],
                     riskyPhrases   |-> [i \in 1..Len(items) |-> items[i].text],
                     gptAnalysis    |-> gptResult])

\* the inner try block (lines 208-247): the remote call and the conversion
tryGpt(text, key, response) ==
    LET gpt == analyzeWithGPT(text, key, response)
    IN  IF gpt.threw THEN Threw ELSE convertGptResult(gpt.value)

\* a catch block that throws the error on
catchGptErrorRethrows(text) ==
    [threw  |-> TRUE,
     result |-> Null,
     steps  |-> <<"analyzeWithGPT">>,
     toasts |-> <<>>]

\* a catch block that falls back without a notice
catchGptErrorSilently(text) ==
    [threw  |-> FALSE,
     result |-> classified[text],
     steps  |-> <<"analyzeWithGPT", "fallbackAnalyze">>,
     toasts |-> <<>>]

\* the inner catch block (lines 248-256); fallbackAnalyze returns for every
\* text, so the block throws nothing to the outer try
catchGptError(text) ==
    [threw  |-> FALSE,
     result |-> classified[text],
     steps  |-> <<"analyzeWithGPT", "fallbackAnalyze">>,
     toasts |-> <<UsingBasicToast>>]

\* a credential branch that calls the endpoint a second time before falling back
gptBranchRetry(text, key, response) ==
    LET tried == tryGpt(text, key, response)
    IN  IF tried.threw
        THEN [threw  |-> FALSE,
              result |-> classified[text],
              steps  |-> <<"analyzeWithGPT", "analyzeWithGPT", "fallbackAnalyze">>,
              toasts |-> <<UsingBasicToast>>]
        ELSE [threw  |-> FALSE,
              result |-> tried.value,
              steps  |-> <<"analyzeWithGPT">>,
              toasts |-> <<GptCompleteToast>>]

\* the credential branch after the await (lines 206-256)
gptBranch(text, key, response) ==
    LET tried == tryGpt(text, key, response)
    IN  IF tried.threw THEN catchGptError(text)
        ELSE [threw  |-> FALSE,
              result |-> tried.value,
              steps  |-> <<"analyzeWithGPT">>,
              toasts |-> <<GptCompleteToast>>]

\* a branch without credential that reports a degraded analysis
noKeyBranchDegraded(text) ==
    [threw  |-> FALSE,
     result |-> classified[text],
     steps  |-> <<"fallbackAnalyze">>,
     toasts |-> <<UsingBasicToast>>]

\* the branch without credential (lines 257-265)
noKeyBranch(text) ==
    [threw  |-> FALSE,
     result |-> classified[text],
     steps  |-> <<"fallbackAnalyze">>,
     toasts |-> <<BasicCompleteToast>>]

NoCall     == [text |-> <<>>, key |-> <<>>, pending |-> FALSE]
NoResponse == [kind |-> "none", value |-> Null]

-----------------------------------------------------------------------------
(* The component *)

Init ==
    /\ termsText = <<>>
    /\ apiKey = <<>>
    /\ isAnalyzing = FALSE
    /\ showResults = FALSE
    /\ highlightRisky = FALSE
    /\ showApiKeyInput = FALSE
    /\ analysis = Null
    /\ pc = "idle"
    /\ call = NoCall
    /\ resp = NoResponse
    /\ steps = <<>>
    /\ toasts = <<>>
    /\ arg = NoArg
    /\ ret = NoRet

\* the text area's onChange; the text area is mounted while no results are shown
setTermsText(t) ==
    /\ ~showResults
    /\ termsText' = t
    /\ UNCHANGED <<apiKey, isAnalyzing, showResults, highlightRisky, showApiKeyInput,
                   analysis, pc, call, resp, steps, toasts, arg, ret>>

\* the credential input's onChange.  The credential is an input of
\* handleAnalyze: the handler is taken as callable whenever the input section
\* is mounted, whether or not showApiKeyInput currently renders the field.
setApiKey(k) ==
    /\ ~showResults
    /\ apiKey' = k
    /\ UNCHANGED <<termsText, isAnalyzing, showResults, highlightRisky, showApiKeyInput,
                   analysis, pc, call, resp, steps, toasts, arg, ret>>

\* the end of the outer try: setAnalysis(result); setShowResults(true), or the
\* outer catch with its 'Analysis failed' toast if the branch threw; finally
\* setIsAnalyzing(false)
storeResult(branch) ==
    /\ isAnalyzing' = FALSE
    /\ steps' = branch.steps
    /\ IF branch.threw
       THEN /\ toasts' = <<AnalysisFailedToast>>
            /\ UNCHANGED <<analysis, showResults>>
       ELSE /\ analysis' = branch.result
            /\ showResults' = TRUE
            /\ toasts' = branch.toasts

\* handleAnalyze up to its return or its first await.  One invocation is in
\* flight at a time (the button is disabled while isAnalyzing); the blank-text
\* guard is the handler's own.
handleAnalyze ==
    /\ pc = "idle"
    /\ ~showResults
    /\ \/ /\ trim(termsText) = <<>>
          /\ toasts' = <<NoTextToast>>
          /\ steps' = <<>>
          /\ UNCHANGED <<termsText, apiKey, isAnalyzing, showResults, highlightRisky,
                         showApiKeyInput, analysis, pc, call, resp, arg, ret>>
       \/ /\ trim(termsText) # <<>>
          /\ trim(apiKey) # <<>>
          /\ isAnalyzing' = TRUE
          /\ pc' = "awaiting"
          /\ call' = [text |-> termsText, key |-> apiKey, pending |-> TRUE]
          /\ steps' = <<"analyzeWithGPT">>
          /\ toasts' = <<>>
          /\ UNCHANGED <<termsText, apiKey, showResults, highlightRisky, showApiKeyInput,
                         analysis, resp, arg, ret>>
       \/ /\ trim(termsText) # <<>>
          /\ trim(apiKey) = <<>>
          /\ storeResult(noKeyBranch(termsText))
          /\ showApiKeyInput' = (showApiKeyInput \/ ~noKeyBranch(termsText).threw)
          /\ UNCHANGED <<termsText, apiKey, highlightRisky, pc, call, resp, arg, ret>>

\* the rest of handleAnalyze, run when the remote call settles with response r
remoteSettles(r) ==
    /\ pc = "awaiting"
    /\ resp' = r
    /\ storeResult(gptBranch(call.text, call.key, r))
    /\ pc' = "idle"
    /\ call' = NoCall
    /\ UNCHANGED <<termsText, apiKey, highlightRisky, showApiKeyInput, arg, ret>>

\* the Switch's onCheckedChange, in the results section
setHighlightRisky(b) ==
    /\ showResults
    /\ highlightRisky' = b
    /\ UNCHANGED <<termsText, apiKey, isAnalyzing, showResults, showApiKeyInput,
                   analysis, pc, call, resp, steps, toasts, arg, ret>>

\* "Analyze Another Document" (lines 570-576); apiKey is not among the states it resets
reset ==
    /\ showResults
    /\ showResults' = FALSE
    /\ termsText' = <<>>
    /\ analysis' = Null
    /\ highlightRisky' = FALSE
    /\ showApiKeyInput' = FALSE
    /\ resp' = NoResponse
    /\ steps' = <<>>
    /\ toasts' = <<>>
    /\ UNCHANGED <<apiKey, isAnalyzing, pc, call, arg, ret>>

Next ==
    \/ \E t \in UITexts : setTermsText(t)
    \/ \E k \in Keys : setApiKey(k)
    \/ handleAnalyze
    \/ \E r \in Responses : remoteSettles(r)
    \/ \E b \in BOOLEAN : setHighlightRisky(b)
    \/ reset

Spec == Init /\ [][Next]_vars

-----------------------------------------------------------------------------
(* Properties of the orchestrator, checked under Spec *)

\* empty or whitespace-only
IsBlank(s) == \A i \in 1..Len(s) : s[i] \in WhiteSpace

\* a step that completes an analysis: the results view opens
Completes == ~showResults /\ showResults'

\* The remote analysis failed: the request was rejected, the status was not a
\* success, the completion was empty, the content was not JSON, or the parsed
\* payload holds no phrases array.
RemoteFailure(r) ==
    \/ r.kind \in {"rejected", "notOk", "badBody", "noContent", "notJson"}
    \/ r.kind = "json" /\ r.value.phrases.t # "array"

\* C1 - Orchestrator fallback: whenever the remote call of an invocation with
\* non-blank text and non-blank credential fails, the invocation ends normally
\* (no longer analyzing, results shown) having stored exactly the rule-based
\* result of the text it was invoked with, without gptAnalysis, and having
\* raised the 'Using basic analysis' notice.
C1_OrchestratorFallback ==
    [][ (pc = "awaiting" /\ pc' = "idle" /\ RemoteFailure(resp'))
        => /\ ~IsBlank(call.text) /\ ~IsBlank(call.key)
           /\ analysis' = classified[call.text]
           /\ ~analysis'.gptAnalysis.present
           /\ toasts' = <<UsingBasicToast>>
           /\ steps' = <<"analyzeWithGPT", "fallbackAnalyze">>
           /\ showResults' /\ ~isAnalyzing' ]_vars

C1_Witness ==
    /\ showResults
    /\ resp.kind = "json" /\ resp.value.t = "object" /\ RemoteFailure(resp)
    /\ toasts = <<UsingBasicToast>>
    /\ ~analysis.gptAnalysis.present
    /\ analysis.riskyPhrases # <<>>

\* C2 - Score range: every stored result, rule-based or remote, whatever
\* number the remote model returned as score and however many phrases, has an
\* integer shadinessScore in 0..100.
C2_ScoreRange ==
    (analysis # Null /\ (resp.kind = "json" => resp.value.score.t = "number")) =>
        /\ analysis.shadinessScore.t = "number"
        /\ analysis.shadinessScore.n >= 0
        /\ analysis.shadinessScore.n <= 100

IsStr(v) == v.t = "string"

\* the contract {score: number, reasoning: string,
\* phrases: array of {text, reason, category}, summary: array of string}
ConformsToContract(v) ==
    /\ v.t = "object"
    /\ v.score.t = "number"
    /\ IsStr(v.reasoning)
    /\ v.phrases.t = "array"
    /\ \A i \in 1..Len(v.phrases.items) :
          /\ v.phrases.items[i].t = "object"
          /\ IsStr(v.phrases.items[i].text)
          /\ IsStr(v.phrases.items[i].reason)
          /\ IsStr(v.phrases.items[i].category)
    /\ v.summary.t = "array"
    /\ \A i \in 1..Len(v.summary.items) : IsStr(v.summary.items[i])

\* C3 - Malformed remote response: whenever the completion content is not
\* JSON or deviates from the contract, the stored result is the rule-based one
\* and carries nothing of the response.
C3_MalformedRejected ==
    (showResults /\ resp.kind \in {"notJson", "json"}
        /\ (resp.kind = "json" => ~ConformsToContract(resp.value)))
    => /\ ~analysis.gptAnalysis.present
       /\ steps = <<"analyzeWithGPT", "fallbackAnalyze">>
       /\ toasts = <<UsingBasicToast>>

\* C4 - Empty-input guard: a handleAnalyze invocation with empty or
\* whitespace-only text runs neither adapter, raises the 'No text to analyze'
\* notice and leaves isAnalyzing, analysis and showResults as they were.
C4_EmptyInputGuard ==
    [][ (handleAnalyze /\ IsBlank(termsText))
        => /\ steps' = <<>>
           /\ toasts' = <<NoTextToast>>
           /\ pc' = "idle"
           /\ UNCHANGED <<isAnalyzing, analysis, showResults>> ]_vars

C4_Witness ==
    /\ termsText # <<>> /\ IsBlank(termsText)
    /\ toasts = <<NoTextToast>>
    /\ steps = <<>>
    /\ analysis = Null /\ ~showResults /\ ~isAnalyzing

\* C5 - No-credential path: a handleAnalyze invocation with non-blank text and
\* a blank credential runs the classifier only, stores its result for the
\* text and raises no destructive notice; and an invocation that calls the
\* remote adapter has a non-blank credential.
C5_NoCredentialPath ==
    [][ handleAnalyze =>
          /\ (~IsBlank(termsText) /\ IsBlank(apiKey))
                => /\ steps' = <<"fallbackAnalyze">>
                   /\ analysis' = classified[termsText]
                   /\ showResults' /\ ~isAnalyzing' /\ pc' = "idle"
                   /\ \A i \in 1..Len(toasts') : toasts'[i].variant # "destructive"
          /\ (\E i \in 1..Len(steps') : steps'[i] = "analyzeWithGPT")
                => ~IsBlank(apiKey) ]_vars

C5_Witness ==
    /\ showResults
    /\ apiKey # <<>> /\ IsBlank(apiKey)
    /\ steps = <<"fallbackAnalyze">>
    /\ toasts = <<BasicCompleteToast>>
    /\ analysis.shadinessScore = Num(100)

\* the remote analysis succeeded: the endpoint answered with a JSON payload
\* whose phrases field is an array of objects
RemoteSuccess(r) ==
    /\ r.kind = "json"
    /\ r.value.t # "null"
    /\ r.value.phrases.t = "array"
    /\ \A i \in 1..Len(r.value.phrases.items) : r.value.phrases.items[i].t = "object"

\* C6 - Remote pass-through and provenance: a completed analysis stores a
\* result with gptAnalysis exactly when its credential was non-blank and its
\* remote analysis succeeded; that result's shadinessScore is the adapter's
\* adjusted score, its reasoning the model's, and its riskyPhrases the returned
\* phrase texts in the order returned.
C6_RemotePassThrough ==
    [][ Completes =>
          /\ analysis'.gptAnalysis.present
                <=> (pc = "awaiting" /\ ~IsBlank(call.key) /\ RemoteSuccess(resp'))
          /\ analysis'.gptAnalysis.present =>
                /\ analysis'.shadinessScore = analysis'.gptAnalysis.score
                /\ analysis'.shadinessScore =
                      analyzeWithGPT(call.text, call.key, resp').value.score
                /\ analysis'.reasoning.val = resp'.value.reasoning
                /\ analysis'.riskyPhrases =
                      [i \in 1..Len(resp'.value.phrases.items) |->
                          resp'.value.phrases.items[i].text] ]_vars

C6_Witness ==
    /\ showResults
    /\ analysis.gptAnalysis.present
    /\ Len(analysis.riskyPhrases) = MaxPhrases
    /\ analysis.shadinessScore = Num(100)
    /\ resp.value.score = Num(91)

\* C7 - Ephemeral credential: once an analysis has completed, no component
\* state holds the credential any more.
C7_EphemeralCredential ==
    showResults => trim(apiKey) = <<>>

-----------------------------------------------------------------------------
(* The classifier as a pure function, checked under SpecClassify *)

MaxWords == 3         \* words in a text handed to the classifier

ClassifyWords == <<" ", "\n", "cookies", "Cookies", "collect", "data", "no refund", "as is">>
ClassifyTexts == TextsOver(ClassifyWords, MaxWords)

\* texts with a finding of low severity, and with more findings than the
\* score has room for
ClampTexts ==
    {Chars("We may modify these terms. Cookies"),
     Chars("as is no refund we collect you agree thirdparty"),
     Chars("As is, no refund. We collect cookies; you agree to tracking and analytics.\nas is")}

InitClassify ==
    /\ termsText = <<>>
    /\ apiKey = <<>>
    /\ isAnalyzing = FALSE
    /\ showResults = FALSE
    /\ highlightRisky = FALSE
    /\ showApiKeyInput = FALSE
    /\ analysis = Null
    /\ pc = "idle"
    /\ call = NoCall
    /\ resp = NoResponse
    /\ steps = <<>>
    /\ toasts = <<>>
    /\ arg \in {[fn |-> "fallbackAnalyze", text |-> t] : t \in ClassifyTexts \cup ClampTexts}
    /\ ret = NoRet

callFallbackAnalyze ==
    /\ arg.fn = "fallbackAnalyze"
    /\ ~ret.done
    /\ ret' = [done |-> TRUE, value |-> fallbackAnalyze(arg.text)]
    /\ UNCHANGED <<uiVars, arg>>

NextClassify == callFallbackAnalyze

SpecClassify == InitClassify /\ [][NextClassify]_vars

\* the weights of the findings of one rule when its matches are identified
\* without regard to letter case
RECURSIVE CaseFoldedScore(_, _)
CaseFoldedScore(text, n) ==
    IF n > Len(riskPatterns) THEN 0
    ELSE Let(match(text, riskPatterns[n].pattern, 1), LAMBDA ms :
            Cardinality({toLowerCase(ms[i]) : i \in 1..Len(ms)})
                * riskValue(riskPatterns[n].severity)
            + CaseFoldedScore(text, n + 1))

\* C8 - Per-rule deduplication: occurrences of a phrase that differ at most in
\* letter case yield one finding and add the rule's weight once.
C8_PerRuleDedup ==
    ret.done =>
        /\ \A i, j \in 1..Len(ret.value.riskyPhrases) :
              i # j => toLowerCase(ret.value.riskyPhrases[i].s)
                          # toLowerCase(ret.value.riskyPhrases[j].s)
        /\ ret.value.shadinessScore = Num(Min(100, CaseFoldedScore(arg.text, 1)))

-----------------------------------------------------------------------------
(* The highlighter *)

\* the character class [.*+?^${}()|[\]\\] of the escaping replace
RegexSpecials == {".", "*", "+", "?", "^", "$", "{", "}", "(", ")", "|", "[", "]", "\\"}

\* an escape that leaves the phrase as it is
escapeNothing(phrase) == phrase

\* phrase.replace(/[.*+?^${}()|[\]\\]/g, '\\$&'): a backslash before each special
escapeRegExp(phrase) ==
    Flatten([i \in 1..Len(phrase) |->
                IF phrase[i] \in RegexSpecials THEN <<"\\", phrase[i]>> ELSE <<phrase[i]>>])

\* What new RegExp makes of the pattern source, read left to right from
\* position i inside depth open groups: a backslash makes the next character
\* a literal, "." is any character but a line terminator, "^" and "$" are the
\* input boundaries, parentheses group and must balance.  The result is the
\* atom sequence, or a SyntaxError.
SyntaxError == [ok |-> FALSE, atoms |-> <<>>]

RECURSIVE parseRegExp(_, _, _, _)
parseRegExp(source, i, depth, atoms) ==
    IF i > Len(source)
    THEN IF depth = 0 THEN [ok |-> TRUE, atoms |-> atoms] ELSE SyntaxError
    ELSE CASE source[i] = "\\" ->
                IF i = Len(source) THEN SyntaxError
                ELSE parseRegExp(source, i + 2, depth,
                                 Append(atoms, [k |-> "char", c |-> source[i + 1]]))
           [] source[i] = "." ->
                parseRegExp(source, i + 1, depth, Append(atoms, [k |-> "any", c |-> "."]))
           [] source[i] = "^" ->
                parseRegExp(source, i + 1, depth, Append(atoms, [k |-> "start", c |-> "^"]))
           [] source[i] = "$" ->
                parseRegExp(source, i + 1, depth, Append(atoms, [k |-> "end", c |-> "$"]))
           [] source[i] = "(" -> parseRegExp(source, i + 1, depth + 1, atoms)
           [] source[i] = ")" ->
                IF depth = 0 THEN SyntaxError
                ELSE parseRegExp(source, i + 1, depth - 1, atoms)
           [] OTHER ->
                parseRegExp(source, i + 1, depth,
                            Append(atoms, [k |-> "char", c |-> source[i]]))

\* new RegExp(`(${escaped})`, 'gi')
newRegExp(escaped) == parseRegExp(<<"(">> \o escaped \o <<")">>, 1, 0, <<>>)

\* the position after the match of atoms n.. at position i of s, or 0
RECURSIVE atomsEnd(_, _, _, _)
atomsEnd(s, i, atoms, n) ==
    IF n > Len(atoms) THEN i
    ELSE CASE atoms[n].k = "char" ->
                IF i <= Len(s) /\ Lower(s[i]) = Lower(atoms[n].c)
                THEN atomsEnd(s, i + 1, atoms, n + 1) ELSE 0
           [] atoms[n].k = "any" ->
                IF i <= Len(s) /\ s[i] \notin LineTerminators
                THEN atomsEnd(s, i + 1, atoms, n + 1) ELSE 0
           [] atoms[n].k = "start" ->
                IF i = 1 THEN atomsEnd(s, i, atoms, n + 1) ELSE 0
           [] atoms[n].k = "end" ->
                IF i = Len(s) + 1 THEN atomsEnd(s, i, atoms, n + 1) ELSE 0

OpenMark    == Chars("<mark class=\"bg-yellow-300 px-1 rounded\">")
CloseMark   == Chars("</mark>")
replacement == OpenMark \o Chars("$1") \o CloseMark

\* the replacement string with $1 replaced by the first group, which spans the match
substitute(template, matched) ==
    Flatten([i \in 1..Len(template) |->
                IF template[i] = "$" /\ i < Len(template) /\ template[i + 1] = "1"
                THEN matched
                ELSE IF template[i] = "1" /\ i > 1 /\ template[i - 1] = "$"
                THEN <<>>
                ELSE <<template[i]>>])

\* String.prototype.replace with a g-flagged expression, from position i on:
\* every match, left to right and not overlapping, is replaced; after an empty
\* match the scan advances by one character
RECURSIVE replaceAll(_, _, _, _)
replaceAll(s, atoms, template, i) ==
    Let({k \in i..(Len(s) + 1) : atomsEnd(s, k, atoms, 1) # 0}, LAMBDA starts :
        IF starts = {} THEN SubSeq(s, i, Len(s))
        ELSE Let(SetMin(starts), LAMBDA k :
                Let(atomsEnd(s, k, atoms, 1), LAMBDA e :
                    SubSeq(s, i, k - 1) \o substitute(template, SubSeq(s, k, e - 1))
                        \o (IF e > k THEN replaceAll(s, atoms, template, e)
                            ELSE IF k <= Len(s)
                            THEN <<s[k]>> \o replaceAll(s, atoms, template, k + 1)
                            ELSE <<>>))))

\* phrases.forEach of highlightText, from phrase n on
RECURSIVE forEachPhrase(_, _, _)
forEachPhrase(highlightedText, phrases, n) ==
    IF n > Len(phrases) THEN Returned(highlightedText)
    ELSE Let(newRegExp(escapeRegExp(phrases[n])), LAMBDA regex :
            IF ~regex.ok THEN Threw
            ELSE Let(replaceAll(highlightedText, regex.atoms, replacement, 1), LAMBDA replaced :
                    forEachPhrase(replaced, phrases, n + 1)))

\* a highlighter that ignores the toggle
highlightAlways(text, phrases, highlight) ==
    IF Len(phrases) = 0 THEN Returned(text) ELSE forEachPhrase(text, phrases, 1)

\* highlightText, which reads the highlightRisky state
highlightText(text, phrases, highlight) ==
    IF ~highlight \/ Len(phrases) = 0 THEN Returned(text)
    ELSE forEachPhrase(text, phrases, 1)

-----------------------------------------------------------------------------
(* The highlighter as a function of its arguments and the highlight toggle,
   checked under SpecHighlight *)

MaxHLLen == 3         \* characters in a text handed to the highlighter

HLChars == {"a", "A", ".", "$", "("}

SeqsOver(S, n) == UNION {[1..k -> S] : k \in 0..n}

HLTexts == SeqsOver(HLChars, MaxHLLen)

\* the phrase lists: none, or one phrase of up to two characters
HLPhraseLists ==
    {<<>>} \cup {<<p>> : p \in {<<>>} \cup {<<c>> : c \in HLChars}
                                \cup {<<c, d>> : c, d \in HLChars}}

\* lists of two phrases, the second of which may also occur in the marker
HLPairLists ==
    {<<Chars(p), Chars(q)>> : p \in {"a", "."}, q \in {"mark", "rounded", "A"}}

\* a text holding every special character, highlighted for each of them, and
\* a price with a parenthesis
SpecialsText == Chars("a.*+?^${}()|[]\\A")

HLExamples ==
    {[fn |-> "highlightText", text |-> SpecialsText, phrases |-> <<<<c>>>>] :
        c \in RegexSpecials}
    \cup {[fn |-> "highlightText", text |-> Chars("Price: $5 (final)."),
           phrases |-> <<Chars("$5 (final)")>>]}

InitHighlight ==
    /\ termsText = <<>>
    /\ apiKey = <<>>
    /\ isAnalyzing = FALSE
    /\ showResults = FALSE
    /\ highlightRisky \in BOOLEAN
    /\ showApiKeyInput = FALSE
    /\ analysis = Null
    /\ pc = "idle"
    /\ call = NoCall
    /\ resp = NoResponse
    /\ steps = <<>>
    /\ toasts = <<>>
    /\ arg \in {[fn |-> "highlightText", text |-> t, phrases |-> ps] :
                    t \in HLTexts, ps \in HLPhraseLists \cup HLPairLists} \cup HLExamples
    /\ ret = NoRet

callHighlightText ==
    /\ arg.fn = "highlightText"
    /\ ~ret.done
    /\ LET r == highlightText(arg.text, arg.phrases, highlightRisky)
       IN  ret' = [done |-> TRUE, threw |-> r.threw,
                   value |-> IF r.threw THEN <<>> ELSE r.value]
    /\ UNCHANGED <<uiVars, arg>>

NextHighlight == callHighlightText

SpecHighlight == InitHighlight /\ [][NextHighlight]_vars

\* the text with every occurrence of the literal phrase, letter case
\* disregarded, wrapped in the highlight marker: occurrences are taken left to
\* right and do not overlap
RECURSIVE WrapLiteral(_, _, _)
WrapLiteral(s, phrase, i) ==
    Let({k \in i..(Len(s) + 1) : LitAt(s, k, phrase)}, LAMBDA occurrences :
        IF occurrences = {} THEN SubSeq(s, i, Len(s))
        ELSE Let(SetMin(occurrences), LAMBDA k :
                SubSeq(s, i, k - 1)
                    \o OpenMark \o SubSeq(s, k, k + Len(phrase) - 1) \o CloseMark
                    \o (IF Len(phrase) > 0 THEN WrapLiteral(s, phrase, k + Len(phrase))
                        ELSE IF k <= Len(s)
                        THEN <<s[k]>> \o WrapLiteral(s, phrase, k + 1)
                        ELSE <<>>)))

RECURSIVE WrapLiterals(_, _, _)
WrapLiterals(s, phrases, n) ==
    IF n > Len(phrases) THEN s
    ELSE Let(WrapLiteral(s, phrases[n], 1), LAMBDA wrapped : WrapLiterals(wrapped, phrases, n + 1))

\* C9 - Literal phrase highlighting: with highlighting on, highlightText does
\* not throw, whatever special characters a phrase holds, and returns the text
\* in which exactly the literal occurrences of each phrase (letter case
\* disregarded), taken in the order of the phrases, are wrapped in the marker.
C9_LiteralHighlight ==
    (ret.done /\ arg.fn = "highlightText" /\ highlightRisky /\ Len(arg.phrases) > 0)
        => /\ ~ret.threw
           /\ ret.value = WrapLiterals(arg.text, arg.phrases, 1)

C9_Witness ==
    /\ ret.done /\ highlightRisky
    /\ arg = [fn |-> "highlightText", text |-> Chars("Price: $5 (final)."),
              phrases |-> <<Chars("$5 (final)")>>]
    /\ ret.value = Chars("Price: ") \o OpenMark \o Chars("$5 (final)") \o CloseMark \o Chars(".")

\* C10 - Highlight identity: with no phrases, or with the highlight toggle
\* off, highlightText returns the text unchanged.
C10_HighlightIdentity ==
    (ret.done /\ arg.fn = "highlightText" /\ (Len(arg.phrases) = 0 \/ ~highlightRisky))
        => ~ret.threw /\ ret.value = arg.text

C10_Witness ==
    /\ ret.done /\ arg.fn = "highlightText"
    /\ highlightRisky /\ arg.phrases = <<>> /\ Len(arg.text) = MaxHLLen
    /\ ret.value = arg.text

-----------------------------------------------------------------------------
(* Further properties of the orchestrator, checked under Spec *)

\* how often an adapter was run by the current invocation
Runs(adapter) == Cardinality({i \in 1..Len(steps) : steps[i] = adapter})

\* C11 - No retry: an invocation calls the endpoint at most once and runs the
\* classifier at most once; a failed remote call is followed by the classifier
\* and nothing else, and a successful one by no classifier run.
C11_NoRetry ==
    /\ Runs("analyzeWithGPT") <= 1
    /\ Runs("fallbackAnalyze") <= 1
    /\ (showResults /\ resp.kind # "none") =>
          IF analysis.gptAnalysis.present
          THEN steps = <<"analyzeWithGPT">>
          ELSE steps = <<"analyzeWithGPT", "fallbackAnalyze">>
    /\ (showResults /\ resp.kind = "none") => steps = <<"fallbackAnalyze">>

C11_Witness ==
    /\ showResults /\ resp.kind = "rejected"
    /\ steps = <<"analyzeWithGPT", "fallbackAnalyze">>
    /\ ~analysis.gptAnalysis.present

\* C14 - riskyPhrases is deduplicated: no stored result, rule-based or remote,
\* lists a phrase more than once in riskyPhrases.
C14_RiskyPhrasesUnique ==
    analysis # Null =>
        \A i, j \in 1..Len(analysis.riskyPhrases) :
            i # j => analysis.riskyPhrases[i] # analysis.riskyPhrases[j]

\* the entries of the returned phrases whose category is one of cats, in order
EntriesOf(items, cats) ==
    LET idx == {i \in 1..Len(items) : items[i].category \in cats}
        nth(k) == CHOOSE i \in idx : Cardinality({j \in idx : j < i}) = k - 1
    IN  [k \in 1..Cardinality(idx) |-> Quoted(items[nth(k)].text, items[nth(k)].reason)]

\* C17 - Remote bucket mapping: a stored remote result holds every returned
\* phrase in exactly one bucket, chosen by its category and in the order
\* returned, so the buckets together hold as many entries as riskyPhrases.
C17_RemoteBuckets ==
    (analysis # Null /\ analysis.gptAnalysis.present) =>
        LET items == resp.value.phrases.items
            c     == analysis.categories
        IN  /\ c.givingUp = EntriesOf(items, {Str(Chars("Data Privacy"))})
            /\ c.risks = EntriesOf(items, {Str(Chars("Legal Rights")),
                                           Str(Chars("User Control"))})
            /\ c.payments = EntriesOf(items, {Str(Chars("Refunds & Payments"))})
            /\ Len(c.givingUp) + Len(c.risks) + Len(c.payments)
                  = Len(analysis.riskyPhrases)

\* Spec with every pending remote call settling eventually: the promise of
\* fetch resolves or rejects
FairSpec == Spec /\ WF_vars(\E r \in Responses : remoteSettles(r))

\* an invocation has ended with a result
Completed == pc = "idle" /\ ~isAnalyzing /\ analysis # Null /\ showResults

\* C19 - Analysis always completes with a result: an invocation with non-blank
\* text ends, at once or when its remote call settles, with isAnalyzing false,
\* a result stored and the results shown; isAnalyzing is true only while an
\* invocation is pending, and 'Analysis failed' is never raised.
C19_AlwaysCompletes ==
    /\ [](isAnalyzing <=> pc = "awaiting")
    /\ [](\A i \in 1..Len(toasts) : toasts[i] # AnalysisFailedToast)
    /\ [][(handleAnalyze /\ ~IsBlank(termsText) /\ pc' = "idle") => Completed']_vars
    /\ [][(pc = "awaiting" /\ pc' = "idle") => Completed']_vars
    /\ ((pc = "awaiting") ~> Completed)

C19_Witness ==
    /\ Completed
    /\ resp.kind = "notOk"
    /\ steps = <<"analyzeWithGPT", "fallbackAnalyze">>

\* C20 - Displayed text matches analysed text: when an analysis completes, the
\* text it was computed from is the text the results view displays.
C20_DisplayedIsAnalysed ==
    [][ Completes =>
          /\ (pc = "awaiting") => call.text = termsText'
          /\ (pc = "idle") => termsText = termsText'
          /\ ~analysis'.gptAnalysis.present => analysis' = classified[termsText'] ]_vars

-----------------------------------------------------------------------------
(* Further properties of the classifier, checked under SpecClassify *)

\* no rule of the catalog matches anywhere in the text
NoRuleMatches(text) ==
    \A n \in 1..Len(riskPatterns) : match(text, riskPatterns[n].pattern, 1) = <<>>

ZeroResult ==
    [shadinessScore |-> Num(0),
     reasoning      |-> [kind |-> "No major issues detected", phrases |-> 0, categories |-> 0,
                         val |-> Undefined],
     categories     |-> [givingUp |-> <<>>, risks |-> <<>>, payments |-> <<>>],
     riskyPhrases   |-> <<>>,
     gptAnalysis    |-> NoGptAnalysis]

\* C12 - Classifier totality and zero result: fallbackAnalyze returns a result
\* for every text; for a blank text, and for any text no rule matches, the
\* result has score 0, three empty buckets, no risky phrase and the reasoning
\* 'No major issues detected'.
C12_ZeroResult ==
    (ret.done /\ arg.fn = "fallbackAnalyze") =>
        /\ ret.value.shadinessScore.t = "number"
        /\ (IsBlank(arg.text) \/ NoRuleMatches(arg.text)) => ret.value = ZeroResult

C12_Witness ==
    /\ ret.done /\ arg.fn = "fallbackAnalyze"
    /\ Len(arg.text) = 2 /\ IsBlank(arg.text)
    /\ ret.value = ZeroResult

-----------------------------------------------------------------------------
(* The classifier called repeatedly, checked under SpecRepeat.  A call is
   given the variables that outlive a call (outer) and returns them with its
   result: fallbackAnalyze declares its patterns, its score, its finding list
   and its buckets as locals, so it reads and writes none. *)

MaxBetween == 1       \* analyses between two calls of the classifier on one text

\* the accumulators as a call declares them (lines 146-152)
FreshAccumulators ==
    [foundIssues |-> <<>>, shadinessScore |-> 0,
     givingUp |-> <<>>, risks |-> <<>>, payments |-> <<>>]

\* a classifier whose accumulators are declared outside the function
fallbackAnalyzeShared(text, outer) ==
    Let(ForEachPattern(outer, text, 1), LAMBDA acc :
        [value |-> [shadinessScore |-> Num(Min(100, acc.shadinessScore)),
                    reasoning      |-> Reasoning(acc.foundIssues),
                    categories     |-> [givingUp |-> Dedup(acc.givingUp),
                                        risks    |-> Dedup(acc.risks),
                                        payments |-> Dedup(acc.payments)],
                    riskyPhrases   |->
                        [i \in 1..Len(acc.foundIssues) |-> Str(acc.foundIssues[i].text)],
                    gptAnalysis    |-> NoGptAnalysis],
         outer |-> acc])

\* one call of fallbackAnalyze
fallbackAnalyzeCall(text, outer) == [value |-> fallbackAnalyze(text), outer |-> outer]

\* the analyses run between the two calls: a text, a key and what the endpoint
\* answers if it is asked
BetweenResponses ==
    {[kind |-> "rejected", value |-> Null],
     [kind |-> "json", value |-> Obj(Num(50), GoodReasoning, PhraseArray(3, 1), GoodSummary)]}

BetweenTexts == {Chars(UIWords[2]), Chars(UIWords[3])}

BetweenAnalyses ==
    {[text |-> t, key |-> <<>>, response |-> NoResponse] : t \in BetweenTexts}
    \cup {[text |-> t, key |-> Chars("sk-1"), response |-> r] :
            t \in BetweenTexts, r \in BetweenResponses}

\* whether handleAnalyze runs the classifier in an analysis
runsClassifier(a) ==
    LET branch == IF trim(a.key) # <<>> THEN gptBranch(a.text, a.key, a.response)
                  ELSE noKeyBranch(a.text)
    IN  \E i \in 1..Len(branch.steps) : branch.steps[i] = "fallbackAnalyze"

InitRepeat ==
    /\ termsText = <<>>
    /\ apiKey = <<>>
    /\ isAnalyzing = FALSE
    /\ showResults = FALSE
    /\ highlightRisky = FALSE
    /\ showApiKeyInput = FALSE
    /\ analysis = Null
    /\ pc = "idle"
    /\ call = NoCall
    /\ resp = NoResponse
    /\ steps = <<>>
    /\ toasts = <<>>
    /\ arg \in {[fn |-> "repeat", text |-> t, between |-> b] :
                    t \in UITexts, b \in SeqsOver(BetweenAnalyses, MaxBetween)}
    /\ ret = [done |-> FALSE, calls |-> <<>>, todo |-> arg.between,
              outer |-> FreshAccumulators]

\* the first call on the text
callFirst ==
    /\ arg.fn = "repeat" /\ ret.calls = <<>>
    /\ LET r == fallbackAnalyzeCall(arg.text, ret.outer)
       IN  ret' = [ret EXCEPT !.calls = <<r.value>>, !.outer = r.outer]
    /\ UNCHANGED <<uiVars, arg>>

\* one analysis in between
analyzeBetween ==
    /\ arg.fn = "repeat" /\ Len(ret.calls) = 1 /\ ret.todo # <<>>
    /\ LET a == Head(ret.todo)
           r == fallbackAnalyzeCall(a.text, ret.outer)
       IN  ret' = [ret EXCEPT !.todo = Tail(ret.todo),
                              !.outer = IF runsClassifier(a) THEN r.outer ELSE ret.outer]
    /\ UNCHANGED <<uiVars, arg>>

\* the second call on the text
callSecond ==
    /\ arg.fn = "repeat" /\ Len(ret.calls) = 1 /\ ret.todo = <<>>
    /\ LET r == fallbackAnalyzeCall(arg.text, ret.outer)
       IN  ret' = [ret EXCEPT !.calls = Append(ret.calls, r.value), !.outer = r.outer,
                              !.done = TRUE]
    /\ UNCHANGED <<uiVars, arg>>

NextRepeat == callFirst \/ analyzeBetween \/ callSecond

SpecRepeat == InitRepeat /\ [][NextRepeat]_vars

RECURSIVE SurvivingMatches(_, _, _)
SurvivingMatches(text, severity, n) ==
    IF n > Len(riskPatterns) THEN 0
    ELSE Let(match(text, riskPatterns[n].pattern, 1), LAMBDA ms :
            (IF riskPatterns[n].severity = severity
             THEN Cardinality({ms[i] : i \in 1..Len(ms)}) ELSE 0)
            + SurvivingMatches(text, severity, n + 1))

WeightedSum(text) ==
    25 * SurvivingMatches(text, "high", 1) + 15 * SurvivingMatches(text, "medium", 1)
        + 10 * SurvivingMatches(text, "low", 1)

\* C15 - Rule-based score formula: the score is min(100, 25*h + 15*m + 10*l)
\* for h, m and l surviving unique matches of high, medium and low severity,
\* and so lies in 0..100.
C15_ScoreFormula ==
    (ret.done /\ arg.fn = "fallbackAnalyze") =>
        /\ ret.value.shadinessScore = Num(Min(100, WeightedSum(arg.text)))
        /\ ret.value.shadinessScore.n \in 0..100

C15_Witness ==
    /\ ret.done /\ arg.fn = "fallbackAnalyze"
    /\ WeightedSum(arg.text) > 100
    /\ SurvivingMatches(arg.text, "medium", 1) > 0
    /\ ret.value.shadinessScore = Num(100)

-----------------------------------------------------------------------------
(* The remote adapter as a function of the endpoint's answer, checked under
   SpecAdapter *)

InitAdapter ==
    /\ termsText = <<>>
    /\ apiKey = <<>>
    /\ isAnalyzing = FALSE
    /\ showResults = FALSE
    /\ highlightRisky = FALSE
    /\ showApiKeyInput = FALSE
    /\ analysis = Null
    /\ pc = "idle"
    /\ call = NoCall
    /\ resp = NoResponse
    /\ steps = <<>>
    /\ toasts = <<>>
    /\ arg \in {[fn |-> "analyzeWithGPT", text |-> Chars("cookies"), key |-> Chars("sk-1"),
                  response |-> r] : r \in Responses}
    /\ ret = NoRet

callAnalyzeWithGPT ==
    /\ arg.fn = "analyzeWithGPT"
    /\ ~ret.done
    /\ LET r == analyzeWithGPT(arg.text, arg.key, arg.response)
       IN  ret' = [done |-> TRUE, threw |-> r.threw,
                   value |-> IF r.threw THEN Null ELSE r.value]
    /\ UNCHANGED <<uiVars, arg>>

NextAdapter == callAnalyzeWithGPT

SpecAdapter == InitAdapter /\ [][NextAdapter]_vars

\* the answer is a JSON object with a number as score and a phrases array, or none
ScoredAnswer(r) ==
    /\ r.kind = "json"
    /\ r.value.t = "object"
    /\ r.value.score.t = "number"
    /\ r.value.phrases.t \in {"array", "undefined", "null"}

\* C16 - Remote score adjustment: for score s and n returned phrases (none if
\* the list is missing) analyzeWithGPT returns min(100, s + 10) if n >= 5,
\* max(0, s - 15) if n <= 2 and s if n is 3 or 4, and every other field as
\* it was returned.
C16_ScoreAdjustment ==
    (ret.done /\ arg.fn = "analyzeWithGPT" /\ ScoredAnswer(arg.response)) =>
        LET s == arg.response.value.score.n
            n == IF arg.response.value.phrases.t = "array"
                 THEN Len(arg.response.value.phrases.items) ELSE 0
        IN  /\ ~ret.threw
            /\ ret.value.score =
                  Num(IF n >= 5 THEN (IF s + 10 > 100 THEN 100 ELSE s + 10)
                      ELSE IF n <= 2 THEN (IF s - 15 < 0 THEN 0 ELSE s - 15)
                      ELSE s)
            /\ ret.value.reasoning = arg.response.value.reasoning
            /\ ret.value.phrases = arg.response.value.phrases
            /\ ret.value.summary = arg.response.value.summary

C16_Witness ==
    /\ ret.done /\ arg.fn = "analyzeWithGPT"
    /\ arg.response.kind = "json"
    /\ arg.response.value.score = Num(91)
    /\ Len(arg.response.value.phrases.items) = MaxPhrases
    /\ ret.value.score = Num(100)

\* whether the word occurs in the matched text, letter case disregarded
Mentions(m, word) == \E i \in 1..Len(m) : LitAt(m, i, Chars(word))

\* the bucket of a rule's category and the sentence of a match in it
RuleBucket(category) ==
    CASE category = "Data Privacy"       -> "givingUp"
      [] category = "Refunds & Payments" -> "payments"
      [] OTHER                           -> "risks"

SentenceIn(bucket, m) ==
    CASE bucket = "givingUp" ->
            IF Mentions(m, "data") THEN Sentence("Your personal data may be collected or shared")
            ELSE Sentence("Your information may be collected or shared")
      [] bucket = "payments" ->
            IF Mentions(m, "refund") THEN Sentence("Limited or no refunds")
            ELSE Sentence("Restrictive payment terms")
      [] OTHER ->
            IF Mentions(m, "agree") THEN Sentence("You may waive certain legal rights")
            ELSE Sentence("You may face account limitations")

\* the sentences generated for a bucket, one per finding, in catalog order
Generated(text, bucket) ==
    Flatten([n \in 1..Len(riskPatterns) |->
                IF RuleBucket(riskPatterns[n].category) = bucket
                THEN Let(uniqueMatches(match(text, riskPatterns[n].pattern, 1)), LAMBDA ms :
                        [i \in 1..Len(ms) |-> SentenceIn(bucket, ms[i])])
                ELSE <<>>])

FirstIndex(xs, x) == SetMin({i \in 1..Len(xs) : xs[i] = x})

\* the bucket holds each generated sentence once, in order of first occurrence
HoldsOnce(bucket, generated) ==
    /\ \A i, j \in 1..Len(bucket) : i # j => bucket[i] # bucket[j]
    /\ {bucket[i] : i \in 1..Len(bucket)} = {generated[i] : i \in 1..Len(generated)}
    /\ \A i, j \in 1..Len(bucket) :
          i < j => FirstIndex(generated, bucket[i]) < FirstIndex(generated, bucket[j])

\* C18 - Rule-based bucket mapping and bucket deduplication: each finding
\* generates one sentence for the bucket of its rule's category, and each
\* bucket of the result holds every sentence generated for it exactly once,
\* in order of first occurrence; a bucket is empty exactly when no finding
\* maps to it.
C18_RuleBuckets ==
    (ret.done /\ arg.fn = "fallbackAnalyze") =>
        LET c == ret.value.categories
            g == Generated(arg.text, "givingUp")
            r == Generated(arg.text, "risks")
            p == Generated(arg.text, "payments")
        IN  /\ HoldsOnce(c.givingUp, g) /\ HoldsOnce(c.risks, r) /\ HoldsOnce(c.payments, p)
            /\ Len(g) + Len(r) + Len(p) = Len(ret.value.riskyPhrases)
            /\ (c.givingUp = <<>>) <=> (g = <<>>)
            /\ (c.risks = <<>>) <=> (r = <<>>)
            /\ (c.payments = <<>>) <=> (p = <<>>)

C18_Witness ==
    /\ ret.done /\ arg.fn = "fallbackAnalyze"
    /\ Len(ret.value.riskyPhrases) = 3
    /\ Len(Generated(arg.text, "givingUp")) = 2
    /\ Len(ret.value.categories.givingUp) = 1
    /\ Len(ret.value.categories.risks) = 1
    /\ ret.value.categories.payments = <<>>

-----------------------------------------------------------------------------
(* Further properties of the highlighter, checked under SpecHighlight *)

\* the positions of s covered by an occurrence of the marker m
CoveredBy(s, m) ==
    {k \in 1..Len(s) : \E i \in (k - Len(m) + 1)..k : ExactAt(s, i, m)}

\* s with every occurrence of the opening and the closing marker deleted
StripMarkers(s) ==
    Let((1..Len(s)) \ (CoveredBy(s, OpenMark) \cup CoveredBy(s, CloseMark)), LAMBDA kept :
        [n \in 1..Cardinality(kept) |->
            s[CHOOSE i \in kept : Cardinality({j \in kept : j < i}) = n - 1]])

\* C21 - Highlighting only adds markers: deleting the markers from the result
\* of highlightText gives the source text back, for every text and every
\* ordered phrase list; no later phrase is matched inside a marker.
C21_OnlyAddsMarkers ==
    (ret.done /\ arg.fn = "highlightText") =>
        ~ret.threw /\ StripMarkers(ret.value) = arg.text

-----------------------------------------------------------------------------
(* The earlier analyzer variant: analyzeTerms and its handleAnalyze, checked
   under SpecEarlier *)

MaxEarlierWords == 2  \* words in a text typed into the earlier variant's text area

\* an alternative with exactly one arbitrary character between two literals
One(a, b) == [a |-> Chars(a), gap |-> "one", b |-> Chars(b)]

\* the earlier catalog: g-flagged patterns without the i flag, with the risk
\* and the pattern's source text
earlierRiskPatterns == <<
    [pattern |-> <<Lit("we may collect"), Lit("we collect"), Lit("data collection")>>,
     source  |-> "we may collect|we collect|data collection", risk |-> "high"],
    [pattern |-> <<One("third", "party"), Lit("third party"), Star("share", "information")>>,
     source  |-> "third.party|third party|share.*information", risk |-> "high"],
    [pattern |-> <<Lit("cookies"), Lit("tracking"), Lit("analytics")>>,
     source  |-> "cookies|tracking|analytics", risk |-> "medium"],
    [pattern |-> <<Lit("you agree"), Lit("binding arbitration"), Star("waive", "rights")>>,
     source  |-> "you agree|binding arbitration|waive.*rights", risk |-> "high"],
    [pattern |-> <<Lit("no refund"), One("non", "refundable"), Lit("final sale")>>,
     source  |-> "no refund|non.refundable|final sale", risk |-> "medium"],
    [pattern |-> <<Star("terminate", "account"), Star("suspend", "service")>>,
     source  |-> "terminate.*account|suspend.*service", risk |-> "medium"],
    [pattern |-> <<Star("modify", "terms"), Star("change", "agreement")>>,
     source  |-> "modify.*terms|change.*agreement", risk |-> "low"],
    [pattern |-> <<Star("liability", "limited"), Lit("not responsible")>>,
     source  |-> "liability.*limited|not responsible", risk |-> "high"],
    [pattern |-> <<Lit("indemnify"), Star("hold", "harmless")>>,
     source  |-> "indemnify|hold.*harmless", risk |-> "high"] >>

\* the position after the match of alternative alt starting at i, letters
\* compared exactly, or 0
AltEndExact(s, i, alt) ==
    IF ~ExactAt(s, i, alt.a) THEN 0
    ELSE Let(i + Len(alt.a), LAMBDA j :
            CASE alt.gap = "none" -> j
              [] alt.gap = "one" ->
                   IF j <= Len(s) /\ s[j] \notin LineTerminators /\ ExactAt(s, j + 1, alt.b)
                   THEN j + 1 + Len(alt.b)
                   ELSE 0
              [] alt.gap = "star" ->
                   Let({k \in j..LineEnd(s, j) : ExactAt(s, k, alt.b)}, LAMBDA at :
                       IF at = {} THEN 0 ELSE SetMax(at) + Len(alt.b)))

RECURSIVE PatternEndExact(_, _, _, _)
PatternEndExact(s, i, pattern, n) ==
    IF n > Len(pattern) THEN 0
    ELSE Let(AltEndExact(s, i, pattern[n]), LAMBDA e :
            IF e # 0 THEN e ELSE PatternEndExact(s, i, pattern, n + 1))

\* text.match(pattern) of the earlier variant; <<>> stands for null
RECURSIVE matchExact(_, _, _)
matchExact(s, pattern, i) ==
    Let({k \in i..Len(s) : PatternEndExact(s, k, pattern, 1) # 0}, LAMBDA starts :
        IF starts = {} THEN <<>>
        ELSE Let(SetMin(starts), LAMBDA k :
                Let(PatternEndExact(s, k, pattern, 1), LAMBDA e :
                    <<SubSeq(s, k, e - 1)>> \o matchExact(s, pattern, e))))

\* reading the identifier match at lines 60, 62 and 64: it is declared only
\* as the parameter of the arrow function of line 53, so outside of it the
\* read throws a ReferenceError
readMatch == Threw

\* "Categorize findings" (lines 59-65): each branch reads match
categorize(acc, source) ==
    IF includes(Chars(source), Chars("collect|share|cookies|tracking")) THEN readMatch
    ELSE IF includes(Chars(source), Chars("refund|payment|final")) THEN readMatch
    ELSE readMatch

\* riskPatterns.forEach of analyzeTerms (lines 50-67), from rule n on
RECURSIVE forEachEarlierPattern(_, _, _)
forEachEarlierPattern(acc, text, n) ==
    IF n > Len(earlierRiskPatterns) THEN Returned(acc)
    ELSE Let(matchExact(text, earlierRiskPatterns[n].pattern, 1), LAMBDA matches :
            IF matches = <<>> THEN forEachEarlierPattern(acc, text, n + 1)
            ELSE Let([riskyPhrases   |-> acc.riskyPhrases \o matches,
                      shadinessScore |-> acc.shadinessScore
                          + riskValue(earlierRiskPatterns[n].risk) * Len(matches),
                      givingUp |-> acc.givingUp, risks |-> acc.risks,
                      payments |-> acc.payments],
                     LAMBDA pushed :
                     Let(categorize(pushed, earlierRiskPatterns[n].source), LAMBDA categorized :
                         IF categorized.threw THEN Threw
                         ELSE forEachEarlierPattern(categorized.value, text, n + 1))))

analyzeTerms(text) ==
    Let(forEachEarlierPattern([riskyPhrases |-> <<>>, shadinessScore |-> 0,
                               givingUp |-> <<>>, risks |-> <<>>, payments |-> <<>>],
                              text, 1),
        LAMBDA done :
        IF done.threw THEN Threw
        ELSE Returned([shadinessScore |-> Num(Min(100, done.value.shadinessScore)),
                       categories     |-> [givingUp |-> done.value.givingUp,
                                           risks    |-> done.value.risks,
                                           payments |-> done.value.payments],
                       riskyPhrases   |-> [i \in 1..Len(done.value.riskyPhrases) |->
                                              Str(done.value.riskyPhrases[i])]]))

EarlierWords == <<" ", "hello", "Cookies", "cookies", "no refund">>
EarlierTexts == TextsOver(EarlierWords, MaxEarlierWords)

InitEarlier == Init

setTermsTextEarlier(t) ==
    /\ ~showResults
    /\ termsText' = t
    /\ UNCHANGED <<apiKey, isAnalyzing, showResults, highlightRisky, showApiKeyInput,
                   analysis, pc, call, resp, steps, toasts, arg, ret>>

\* handleAnalyze up to its await (lines 79-85); the button is disabled while
\* isAnalyzing
handleAnalyzeEarlier ==
    /\ pc = "idle" /\ ~showResults /\ ~isAnalyzing
    /\ \/ /\ trim(termsText) = <<>>
          /\ UNCHANGED vars
       \/ /\ trim(termsText) # <<>>
          /\ isAnalyzing' = TRUE
          /\ pc' = "awaiting"
          /\ call' = [text |-> termsText, key |-> <<>>, pending |-> TRUE]
          /\ UNCHANGED <<termsText, apiKey, showResults, highlightRisky, showApiKeyInput,
                         analysis, resp, steps, toasts, arg, ret>>

\* the timer of line 85 fires and handleAnalyze runs on (lines 87-90); if
\* analyzeTerms throws, the promise of handleAnalyze is rejected and the
\* setters of lines 88-90 are not reached
timerFires ==
    /\ pc = "awaiting"
    /\ LET result == analyzeTerms(call.text)
       IN  IF result.threw
           THEN /\ pc' = "rejected"
                /\ UNCHANGED <<analysis, isAnalyzing, showResults>>
           ELSE /\ pc' = "idle"
                /\ analysis' = result.value
                /\ isAnalyzing' = FALSE
                /\ showResults' = TRUE
    /\ call' = NoCall
    /\ UNCHANGED <<termsText, apiKey, highlightRisky, showApiKeyInput, resp, steps,
                   toasts, arg, ret>>

setHighlightRiskyEarlier(b) ==
    /\ showResults
    /\ highlightRisky' = b
    /\ UNCHANGED <<termsText, apiKey, isAnalyzing, showResults, showApiKeyInput,
                   analysis, pc, call, resp, steps, toasts, arg, ret>>

\* "Analyze Another Document" (lines 295-300)
resetEarlier ==
    /\ showResults
    /\ showResults' = FALSE
    /\ termsText' = <<>>
    /\ analysis' = Null
    /\ highlightRisky' = FALSE
    /\ UNCHANGED <<apiKey, isAnalyzing, showApiKeyInput, pc, call, resp, steps, toasts,
                   arg, ret>>

NextEarlier ==
    \/ \E t \in EarlierTexts : setTermsTextEarlier(t)
    \/ handleAnalyzeEarlier
    \/ timerFires
    \/ \E b \in BOOLEAN : setHighlightRiskyEarlier(b)
    \/ resetEarlier

\* the timer of line 85 fires
SpecEarlier == InitEarlier /\ [][NextEarlier]_vars /\ WF_vars(timerFires)

\* C22 - Earlier analyzer variant terminates: analyzeTerms returns a result
\* for every text, also when a pattern matches, and every invocation with
\* non-blank text ends with isAnalyzing false, analysis set and the results
\* shown.
C22_EarlierTerminates ==
    /\ [](pc # "rejected")
    /\ (isAnalyzing ~> (~isAnalyzing /\ analysis # Null /\ showResults))

=============================================================================
